---- MODULE Spec2Model ----
(***************************************************************************)
(* Model of the Record REST backend (src/app.py): the Record entity, its   *)
(* normalisation rules and the four request handlers over the relational   *)
(* store.  A string is the sequence of its Unicode code points, so that    *)
(* strip() is computed, not assumed.  Timestamps are integer microsecond   *)
(* counts.  A handler is a sequence of round trips to the store (query,    *)
(* commit, reload for the response); each round trip is one step, and      *)
(* requests served by different workers interleave between them.           *)
(***************************************************************************)
EXTENDS Integers, Sequences, FiniteSets, TLC

\* ---------------------------------------------------------------- bounds
MaxId == 2        \* ids the store hands out in one behaviour
MaxRows == 1      \* rows the table holds at once
MaxClock == 1     \* last instant of the wall clock

\* ------------------------------------------------------- values and input
None == <<-1>>                     \* Python None / JSON null / SQL NULL

\* The code points str.strip() removes (those with str.isspace())
Whitespace ==
    (9..13) \cup (28..32) \cup {133, 160, 5760} \cup (8192..8202)
    \cup {8232, 8233, 8239, 8287, 12288}

Keys == {"name", "message", "note"}
Ids == 1..MaxId

\* str.lstrip()
RECURSIVE LStrip(_)
LStrip(s) == IF s # <<>> /\ Head(s) \in Whitespace THEN LStrip(Tail(s)) ELSE s

\* str.rstrip()
RECURSIVE RStrip(_)
RStrip(s) ==
    IF s # <<>> /\ s[Len(s)] \in Whitespace
    THEN RStrip(SubSeq(s, 1, Len(s) - 1))
    ELSE s

\* str.strip(): drop leading and trailing whitespace
Strip(s) == RStrip(LStrip(s))

\* A string that is empty or whitespace-only
Blank(s) == Strip(s) = <<>>

\* Python truthiness of a field value (None and "" are falsy)
TruthyVal(v) == v # None /\ v # <<>>

\* Values a client sends under a key: JSON null and the strings "", " " (or
\* another whitespace character), "a", " b " and " a"
In(key) ==
    CASE key = "name" -> {None, <<>>, <<32>>, <<97>>, <<32, 98, 32>>}
      [] key = "message" -> {None, <<160>>, <<9, 97>>}
      [] key = "note" -> {None, <<>>, <<11>>, <<32, 97>>}

\* JSON objects a client sends: no key, one key with each of its values, and
\* name with message (and a note) as a create sends them
MapBodies ==
    {<<>>}
    \cup UNION {{k :> v : v \in In(k)} : k \in Keys}
    \cup {("name" :> n) @@ ("message" :> <<9, 97>>) :
             n \in {<<97>>, <<32, 98, 32>>, <<32>>}}
    \cup {("name" :> <<97>>) @@ ("message" :> <<9, 97>>) @@ ("note" :> v) :
             v \in In("note") \ {<<>>}}

\* request.get_json(): JSON null, object, array or number
Bodies ==
    {[kind |-> "null", val |-> 0]}
    \cup {[kind |-> "map", val |-> m] : m \in MapBodies}
    \cup {[kind |-> "list", val |-> l] : l \in {<<"x">>, <<"name">>}}
    \cup {[kind |-> "num", val |-> 5]}

\* The bodies sent when two requests overlap: a create, a rename, no key
OverlapBodies ==
    {[kind |-> "map", val |-> m] :
        m \in {("name" :> <<97>>) @@ ("message" :> <<9, 97>>),
               "name" :> <<32, 98, 32>>,
               <<>>}}

IsMap(data) == data.kind = "map"

\* Python truthiness of the parsed body
Truthy(data) ==
    CASE data.kind = "null" -> FALSE
      [] data.kind = "map" -> DOMAIN data.val # {}
      [] data.kind = "list" -> Len(data.val) > 0
      [] data.kind = "num" -> data.val # 0

\* dict.get(key): the value, or None when the key is absent
Get(data, key) ==
    IF key \in DOMAIN data.val THEN data.val[key] ELSE None

\* `key in data`: "yes"/"no", or "TypeError" for a number
Contains(data, key) ==
    CASE data.kind = "map" -> IF key \in DOMAIN data.val THEN "yes" ELSE "no"
      [] data.kind = "list" ->
            IF \E i \in 1..Len(data.val) : data.val[i] = key THEN "yes" ELSE "no"
      [] OTHER -> "TypeError"

\* ------------------------------------------------------------------ state
VARIABLES
    store,      \* committed rows of table records: id -> row
    nextId,     \* the store's next auto-generated id
    clock,      \* datetime.now(timezone.utc), in microseconds
    th,         \* per worker: the request it serves and how far it got
    issued,     \* ids given to inserted rows (history)
    deleted     \* ids removed by delete requests (history)

vars == <<store, nextId, clock, th, issued, deleted>>

NoData == [kind |-> "null", val |-> 0]

\* No row: what a session holds before it loaded or created one
NoRow == [id |-> 0, name |-> <<>>, message |-> <<>>, note |-> None,
          created_at |-> 0, updated_at |-> 0]

\* A worker that serves no request
Idle == [phase |-> "idle", op |-> "none", id |-> 0, data |-> NoData,
         loaded |-> NoRow, rec |-> NoRow, wrote |-> FALSE,
         status |-> 0, fault |-> "none"]

\* A worker inside a handler: phase is the round trip ahead ("commit" or
\* "reload"), loaded the row as the session loaded it, rec the row as the
\* handler changed it in memory, wrote whether a commit of this request
\* has changed the table (history)
Serving(phase, op, id, data, loaded, rec, wrote) ==
    [phase |-> phase, op |-> op, id |-> id, data |-> data,
     loaded |-> loaded, rec |-> rec, wrote |-> wrote,
     status |-> 0, fault |-> "none"]

\* A worker whose handler returned: its status, the body where the handler
\* answered from its checks of the body (NoData otherwise), and in fault the
\* round trip that raised SQLAlchemyError, if one did
Reply(op, id, data, status, fault) ==
    [phase |-> "resp", op |-> op, id |-> id, data |-> data,
     loaded |-> NoRow, rec |-> NoRow, wrote |-> FALSE,
     status |-> status, fault |-> fault]

\* One worker: requests are served one after the other
Init ==
    /\ store = <<>>
    /\ nextId = 1
    /\ clock = 0
    /\ th = [t \in {1} |-> Idle]
    /\ issued = {}
    /\ deleted = {}

\* Two workers (app.run serves each request in its own thread)
InitOverlap ==
    /\ store = <<>>
    /\ nextId = 1
    /\ clock = 0
    /\ th = [t \in {1, 2} |-> Idle]
    /\ issued = {}
    /\ deleted = {}

\* An id generator that hands out the lowest id no stored row has
NewId_LowestFree ==
    CHOOSE i \in 1..(MaxId + 1) :
        i \notin DOMAIN store /\ \A j \in 1..(i - 1) : j \in DOMAIN store

\* The id the store generates for the next inserted row (integer primary
\* key): ids grow, and the id of a deleted row is not handed out again
NewId == nextId

\* ----------------------------------------------------------- Record entity
\* Record(name=..., message=..., note=...) with the column defaults
Record(id, data, t1, t2) ==
    [id |-> id,
     name |-> Strip(Get(data, "name")),
     message |-> Strip(Get(data, "message")),
     note |-> IF TruthyVal(Get(data, "note")) THEN Strip(Get(data, "note")) ELSE None,
     created_at |-> t1,
     updated_at |-> t2]

\* The test without its `and data[key].strip()` half: a present value is
\* stored even when blank
FieldTest_NoBlankTest(data, key) ==
    LET c == Contains(data, key) IN
    IF c = "TypeError" THEN "TypeError"
    ELSE IF c = "no" THEN "keep"
    ELSE IF ~IsMap(data) THEN "TypeError"
    ELSE IF data.val[key] = None THEN "AttributeError"
    ELSE "set"

\* One `if key in data and data[key].strip()` test of update_from_dict:
\* "set", "keep", or the exception raised
FieldTest(data, key) ==
    LET c == Contains(data, key) IN
    IF c = "TypeError" THEN "TypeError"
    ELSE IF c = "no" THEN "keep"
    ELSE IF ~IsMap(data) THEN "TypeError"
    ELSE IF data.val[key] = None THEN "AttributeError"
    ELSE IF Blank(data.val[key]) THEN "keep" ELSE "set"

\* `if 'note' in data`: "set", "keep", or the exception raised
NoteTest(data) ==
    LET c == Contains(data, "note") IN
    IF c = "TypeError" THEN "TypeError"
    ELSE IF c = "no" THEN "keep"
    ELSE IF ~IsMap(data) THEN "TypeError" ELSE "set"

\* update_from_dict that resets created_at along with updated_at
update_from_dict_Touch(rec, data, now) ==
    [ok |-> TRUE, exc |-> "",
     rec |-> [rec EXCEPT !.created_at = now, !.updated_at = now]]

\* Record.update_from_dict: the mutated record, or the exception raised
update_from_dict(rec, data, now) ==
    LET n == FieldTest(data, "name")
        m == IF n \in {"set", "keep"} THEN FieldTest(data, "message") ELSE n
        o == IF m \in {"set", "keep"} THEN NoteTest(data) ELSE m
    IN
    IF o \notin {"set", "keep"} THEN [ok |-> FALSE, exc |-> o, rec |-> rec]
    ELSE [ok |-> TRUE, exc |-> "",
          rec |-> [id |-> rec.id,
                   name |-> IF n = "set" THEN Strip(data.val["name"]) ELSE rec.name,
                   message |-> IF m = "set" THEN Strip(data.val["message"]) ELSE rec.message,
                   note |-> IF o = "keep" THEN rec.note
                            ELSE IF TruthyVal(data.val["note"]) THEN Strip(data.val["note"])
                            ELSE None,
                   created_at |-> rec.created_at,
                   updated_at |-> now]]

\* ------------------------------------------------------------------ store
Put(s, id, rec) == [i \in DOMAIN s \cup {id} |-> IF i = id THEN rec ELSE s[i]]

\* A delete that never reaches the table
Remove_Keep(s, id) == s

\* DELETE ... WHERE id = :id (a row that is gone is no error)
Remove(s, id) == [i \in DOMAIN s \ {id} |-> s[i]]

\* The columns the session found changed: those whose value in memory
\* differs from the value loaded
Changed(loaded, rec) == {c \in DOMAIN rec : rec[c] # loaded[c]}

\* The row after the flush of an update: UPDATE sets only the changed
\* columns, and the onupdate default gives updated_at when it is not among
\* them; no statement is sent when nothing changed
Flush(cur, loaded, rec, now) ==
    LET ch == Changed(loaded, rec) IN
    IF ch = {} THEN cur
    ELSE [c \in DOMAIN cur |->
            IF c \in ch THEN rec[c] ELSE IF c = "updated_at" THEN now ELSE cur[c]]

\* db.session.commit() / rollback(): the new rows, or the old ones on failure
Commit(old, new, fail) == IF fail THEN old ELSE new

\* ---------------------------------------------------------------- handlers
Set(t, v) == th' = [th EXCEPT ![t] = v]

\* GET /api/records: one query
get_records(t, fail) ==
    /\ th[t].phase = "idle"
    /\ Set(t, IF fail THEN Reply("list", 0, NoData, 500, "query")
              ELSE Reply("list", 0, NoData, 200, "none"))
    /\ UNCHANGED <<store, nextId, clock, issued, deleted>>

\* The check at the head of create_record: 400, 500 (uncaught) or 0 to go on
CreateCheck(data) ==
    IF ~Truthy(data) THEN 400
    ELSE IF ~IsMap(data) THEN 500
    ELSE IF ~TruthyVal(Get(data, "name")) \/ ~TruthyVal(Get(data, "message")) THEN 400
    ELSE 0

\* POST /api/records up to the commit; d is the time between the two
\* column defaults
create_record(t, data, fail, d) ==
    /\ th[t].phase = "idle"
    /\ nextId <= MaxId
    /\ Cardinality(DOMAIN store) < MaxRows
    /\ LET c == CreateCheck(data)
           done == c = 0 /\ ~fail
           new == Put(store, NewId, Record(NewId, data, clock, clock + d))
       IN
       /\ Set(t, IF c # 0 THEN Reply("create", 0, data, c, "none")
                 ELSE IF fail THEN Reply("create", 0, NoData, 500, "commit")
                 ELSE Serving("reload", "create", NewId, data, NoRow, NoRow, TRUE))
       /\ store' = IF c # 0 THEN store ELSE Commit(store, new, fail)
       /\ nextId' = IF done THEN nextId + 1 ELSE nextId
       /\ issued' = IF done THEN issued \cup {NewId} ELSE issued
       /\ clock' = IF done THEN clock + d ELSE clock
       /\ UNCHANGED deleted

\* to_dict() after the commit reloads the expired row for the response
to_dict(t, fail, status) ==
    /\ th[t].phase = "reload"
    /\ Set(t, IF fail \/ th[t].id \notin DOMAIN store
              THEN Reply(th[t].op, th[t].id, NoData, 500, "reload")
              ELSE Reply(th[t].op, th[t].id, NoData, status, "none"))
    /\ UNCHANGED <<store, nextId, clock, issued, deleted>>

\* POST /api/records from the commit on
create_record_reply(t, fail) ==
    /\ th[t].op = "create"
    /\ to_dict(t, fail, 201)

\* PUT /api/records/<id> up to the commit: get_or_404, the body check and
\* update_from_dict on the loaded row
update_record(t, record_id, data, fail) ==
    /\ th[t].phase = "idle"
    /\ LET found == record_id \in DOMAIN store
           u == update_from_dict(store[record_id], data, clock)
       IN
       Set(t, IF fail THEN Reply("update", record_id, NoData, 500, "query")
              ELSE IF ~found THEN Reply("update", record_id, NoData, 404, "none")
              ELSE IF ~Truthy(data) THEN Reply("update", record_id, data, 400, "none")
              ELSE IF ~u.ok THEN Reply("update", record_id, data, 500, "none")
              ELSE Serving("commit", "update", record_id, data,
                           store[record_id], u.rec, FALSE))
    /\ UNCHANGED <<store, nextId, clock, issued, deleted>>

\* PUT: db.session.commit(), d after the handler read the clock; an UPDATE
\* that matches no row raises
update_record_commit(t, fail, d) ==
    /\ th[t].phase = "commit" /\ th[t].op = "update"
    /\ LET w == th[t]
           stale == Changed(w.loaded, w.rec) # {} /\ w.id \notin DOMAIN store
           new == IF w.id \in DOMAIN store
                  THEN Put(store, w.id, Flush(store[w.id], w.loaded, w.rec, clock + d))
                  ELSE store
       IN
       /\ Set(t, IF fail \/ stale THEN Reply("update", w.id, NoData, 500, "commit")
                 ELSE Serving("reload", "update", w.id, w.data, NoRow, NoRow,
                              new # store))
       /\ store' = Commit(store, new, fail \/ stale)
    /\ clock' = clock + d
    /\ UNCHANGED <<nextId, issued, deleted>>

\* PUT from the commit on
update_record_reply(t, fail) ==
    /\ th[t].op = "update"
    /\ to_dict(t, fail, 200)

\* DELETE /api/records/<id> up to the commit: get_or_404
delete_record(t, record_id, fail) ==
    /\ th[t].phase = "idle"
    /\ Set(t, IF fail THEN Reply("delete", record_id, NoData, 500, "query")
              ELSE IF record_id \notin DOMAIN store
              THEN Reply("delete", record_id, NoData, 404, "none")
              ELSE Serving("commit", "delete", record_id, NoData,
                           store[record_id], NoRow, FALSE))
    /\ UNCHANGED <<store, nextId, clock, issued, deleted>>

\* DELETE: db.session.delete(record), db.session.commit() and the answer
delete_record_commit(t, fail) ==
    /\ th[t].phase = "commit" /\ th[t].op = "delete"
    /\ Set(t, IF fail THEN Reply("delete", th[t].id, NoData, 500, "commit")
              ELSE Reply("delete", th[t].id, NoData, 200, "none"))
    /\ store' = Commit(store, Remove(store, th[t].id), fail)
    /\ deleted' = IF fail THEN deleted ELSE deleted \cup {th[t].id}
    /\ UNCHANGED <<nextId, clock, issued>>

\* ------------------------------------------------------------ environment
\* The client reads the response; the worker can serve the next request
Receive(t) ==
    /\ th[t].phase = "resp"
    /\ Set(t, Idle)
    /\ UNCHANGED <<store, nextId, clock, issued, deleted>>

\* The wall clock advances between requests (the time that passes inside
\* a handler is the d of the steps that read the clock)
Tick ==
    /\ clock < MaxClock
    /\ \A t \in DOMAIN th : th[t].phase = "idle"
    /\ clock' = clock + 1
    /\ UNCHANGED <<store, nextId, th, issued, deleted>>

\* The time between update_from_dict and the flush: it shows only when
\* the flush asks the onupdate default for updated_at
Waits(t, fail, max) ==
    IF /\ ~fail
       /\ Changed(th[t].loaded, th[t].rec) # {}
       /\ "updated_at" \notin Changed(th[t].loaded, th[t].rec)
    THEN 0..max ELSE {0}

\* The commit outcomes of a create: it commits only past its checks
CommitFails(data) == IF CreateCheck(data) = 0 THEN BOOLEAN ELSE {FALSE}

\* The time the two column defaults of an insert can lie apart
Gaps(data, fail, max) ==
    IF CreateCheck(data) = 0 /\ ~fail THEN 0..max ELSE {0}

\* The bodies an update gets to read: none when its query raised or found
\* no row (get_or_404 precedes request.get_json())
BodiesRead(all, record_id, fail) ==
    IF fail \/ record_id \notin DOMAIN store THEN {NoData} ELSE all

\* The workers at a given point of their handler
At(phase, op) == {t \in DOMAIN th : th[t].phase = phase /\ th[t].op = op}

Next ==
    \/ \E t \in At("idle", "none"), fail \in BOOLEAN : get_records(t, fail)
    \/ \E t \in At("idle", "none"), data \in Bodies :
          \E fail \in CommitFails(data) :
             \E d \in Gaps(data, fail, MaxClock - clock) :
                create_record(t, data, fail, d)
    \/ \E t \in At("reload", "create"), fail \in BOOLEAN : create_record_reply(t, fail)
    \/ \E t \in At("idle", "none"), id \in Ids, fail \in BOOLEAN :
          \E data \in BodiesRead(Bodies, id, fail) : update_record(t, id, data, fail)
    \/ \E t \in At("commit", "update"), fail \in BOOLEAN :
          \E d \in Waits(t, fail, MaxClock - clock) : update_record_commit(t, fail, d)
    \/ \E t \in At("reload", "update"), fail \in BOOLEAN : update_record_reply(t, fail)
    \/ \E t \in At("idle", "none"), id \in Ids, fail \in BOOLEAN :
          delete_record(t, id, fail)
    \/ \E t \in At("commit", "delete"), fail \in BOOLEAN : delete_record_commit(t, fail)
    \/ \E t \in DOMAIN th : Receive(t)
    \/ Tick

\* Requests served one at a time
Spec == Init /\ [][Next]_vars

\* Overlapping requests, all at one instant
NextOverlap ==
    \/ \E t \in At("idle", "none"), fail \in BOOLEAN : get_records(t, fail)
    \/ \E t \in At("idle", "none"), data \in OverlapBodies, fail \in BOOLEAN :
          create_record(t, data, fail, 0)
    \/ \E t \in At("reload", "create"), fail \in BOOLEAN : create_record_reply(t, fail)
    \/ \E t \in At("idle", "none"), id \in Ids, fail \in BOOLEAN :
          \E data \in BodiesRead(OverlapBodies, id, fail) :
             update_record(t, id, data, fail)
    \/ \E t \in At("commit", "update"), fail \in BOOLEAN : update_record_commit(t, fail, 0)
    \/ \E t \in At("reload", "update"), fail \in BOOLEAN : update_record_reply(t, fail)
    \/ \E t \in At("idle", "none"), id \in Ids, fail \in BOOLEAN :
          delete_record(t, id, fail)
    \/ \E t \in At("commit", "delete"), fail \in BOOLEAN : delete_record_commit(t, fail)
    \/ \E t \in DOMAIN th : Receive(t)

SpecOverlap == InitOverlap /\ [][NextOverlap]_vars

\* What GET /api/records returns: every stored record
Listing == {store[i] : i \in DOMAIN store}

\* ------------------------------------------------------------- properties
\* A step in which worker t took a request for op and made its first round
\* trip
Started(t, op) == th[t].phase = "idle" /\ th'[t].op = op

\* A step in which the commit of worker t's op succeeded
Committed(t, op) ==
    th[t].phase # "reload" /\ th'[t].phase = "reload" /\ th'[t].op = op

\* A step in which the handler of op returned its response
Returned(t, op) ==
    th[t].phase # "resp" /\ th'[t].phase = "resp" /\ th'[t].op = op

\* A JSON object whose name and message, where present, are strings
StringFields(data) ==
    /\ IsMap(data)
    /\ \A k \in DOMAIN data.val \ {"note"} : data.val[k] # None

\* name or message absent, null, empty or whitespace-only
BlankCreate(data) ==
    \E k \in {"name", "message"} :
        k \notin DOMAIN data.val \/ data.val[k] = None \/ Blank(data.val[k])

\* C1: every stored record has a name and a message that are neither empty
\* nor whitespace-only.
C1_NonBlankFields ==
    \A i \in DOMAIN store : ~Blank(store[i].name) /\ ~Blank(store[i].message)

\* C2: a create whose name or message is absent or blank after trimming
\* returns 400 and leaves the store as it was; a create with both non-blank
\* adds exactly one record and returns 201 (storage working).
C2_CreateValidation ==
    [][\A t \in DOMAIN th :
         /\ Started(t, "create") /\ IsMap(th'[t].data) /\ th'[t].fault = "none" =>
              IF BlankCreate(th'[t].data)
              THEN th'[t].phase = "resp" /\ th'[t].status = 400 /\ store' = store
              ELSE /\ Committed(t, "create")
                   /\ Cardinality(DOMAIN store' \ DOMAIN store) = 1
                   /\ \A i \in DOMAIN store : i \in DOMAIN store' /\ store'[i] = store[i]
         /\ Returned(t, "create") /\ th[t].phase = "reload" /\ th'[t].fault = "none" =>
              th'[t].status = 201]_vars

\* A note is null, or a non-empty string without surrounding whitespace
NoteNormal(n) == n = None \/ (n # <<>> /\ Strip(n) = n)

\* C3: every stored note is null or a non-empty string without surrounding
\* whitespace; an omitted, empty or whitespace-only note is stored as null, and
\* an update without a note key leaves the note as it was.
C3_NoteNormalised ==
    /\ [](\A i \in DOMAIN store : NoteNormal(store[i].note))
    /\ [][\A t \in DOMAIN th :
            (Committed(t, "create") \/ Committed(t, "update"))
            /\ IsMap(th'[t].data) /\ th'[t].id \in DOMAIN store' =>
            LET v == th'[t].data.val
                new == store'[th'[t].id]
            IN  IF "note" \in DOMAIN v
                THEN new.note = IF v["note"] = None \/ Blank(v["note"])
                                THEN None ELSE Strip(v["note"])
                ELSE IF th'[t].op = "create" THEN new.note = None
                     ELSE new.note = store[th'[t].id].note]_vars

\* C4: an update of an existing record whose body has string fields is not
\* rejected; its commit stores the trimmed name/message exactly when the key
\* is present and non-blank and keeps the old value otherwise, with updatedAt
\* set to the time of the request; it is answered 200 (storage working).
C4_PartialUpdate ==
    [][\A t \in DOMAIN th :
         /\ Started(t, "update") /\ th'[t].fault = "none"
            /\ th'[t].id \in DOMAIN store /\ StringFields(th'[t].data)
            /\ DOMAIN th'[t].data.val # {} =>
              th'[t].phase = "commit"
         /\ Committed(t, "update") /\ StringFields(th[t].data)
            /\ th[t].id \in DOMAIN store =>
              LET v == th[t].data.val
                  old == store[th[t].id]
                  new == store'[th[t].id]
              IN  /\ new.name = IF "name" \in DOMAIN v /\ ~Blank(v["name"])
                                THEN Strip(v["name"]) ELSE old.name
                  /\ new.message = IF "message" \in DOMAIN v /\ ~Blank(v["message"])
                                   THEN Strip(v["message"]) ELSE old.message
                  /\ new.updated_at \in clock..clock'
         /\ Returned(t, "update") /\ th[t].phase = "reload" /\ th'[t].fault = "none" =>
              th'[t].status = 200]_vars

\* An update that sent a whitespace-only name was committed: the name is
\* kept and updatedAt is past createdAt
C4_Witness ==
    \E t \in DOMAIN th :
        /\ th[t].phase = "reload" /\ th[t].op = "update"
        /\ IsMap(th[t].data) /\ "name" \in DOMAIN th[t].data.val
        /\ th[t].data.val["name"] = <<32>>
        /\ th[t].id \in DOMAIN store
        /\ store[th[t].id].name = <<97>>
        /\ store[th[t].id].updated_at > store[th[t].id].created_at

\* C5: an update of an existing record (storage working) is rejected with
\* 400 exactly when the body is not a mapping; every mapping body, the empty
\* one included, goes on to its commit with updatedAt set to the current time.
C5_OnlyNonMappingRejected ==
    [][\A t \in DOMAIN th :
         Started(t, "update") /\ th'[t].fault = "none" /\ th'[t].id \in DOMAIN store =>
            IF IsMap(th'[t].data)
            THEN th'[t].phase = "commit" /\ th'[t].rec.updated_at = clock
            ELSE th'[t].phase = "resp" /\ th'[t].status = 400 /\ store' = store]_vars

\* C6: a committed create has an id no earlier create had, deleted records
\* included, and returns that id; the commit of an update leaves every
\* record's id as it was.
C6_IdsUnique ==
    /\ [](\A i \in DOMAIN store : store[i].id = i)
    /\ [][\A t \in DOMAIN th :
            /\ Committed(t, "create") =>
                 /\ th'[t].id \notin issued
                 /\ DOMAIN store' = DOMAIN store \cup {th'[t].id}
            /\ Returned(t, "create") /\ th'[t].status = 201 =>
                 th'[t].id = th[t].id /\ th'[t].id \in issued
            /\ Committed(t, "update") =>
                 /\ DOMAIN store' = DOMAIN store
                 /\ \A i \in DOMAIN store : store'[i].id = store[i].id]_vars

\* A create returned the id of a second record after the first was deleted,
\* while the other worker serves a request
C6_Witness ==
    \E t \in DOMAIN th :
        /\ th[t].phase = "resp" /\ th[t].op = "create" /\ th[t].status = 201
        /\ deleted # {} /\ th[t].id \notin deleted
        /\ th[t].id \in DOMAIN store
        /\ \E u \in DOMAIN th \ {t} : th[u].phase \in {"commit", "reload"}

\* C7: an update or delete that does not find its id in the store is
\* answered 404 and changes no record (storage working); a deleted id is not
\* found again, and no listing contains it.
C7_UnknownId ==
    /\ [](\A r \in Listing : r.id \notin deleted)
    /\ [][\A t \in DOMAIN th :
            (Started(t, "update") \/ Started(t, "delete"))
            /\ (th'[t].id \notin DOMAIN store \/ th'[t].id \in deleted)
            /\ th'[t].fault = "none" =>
            th'[t].phase = "resp" /\ th'[t].status = 404 /\ store' = store]_vars

\* An update of a deleted id was answered 404 while another record is stored
\* and the other worker serves a request
C7_Witness ==
    \E t \in DOMAIN th :
        /\ th[t].phase = "resp" /\ th[t].op = "update" /\ th[t].status = 404
        /\ th[t].id \in deleted
        /\ store # <<>>
        /\ \E u \in DOMAIN th \ {t} : th[u].phase \in {"commit", "reload"}

\* C8: updatedAt is never before createdAt, and no step changes the createdAt
\* of a stored record.
C8_Timestamps ==
    /\ [](\A i \in DOMAIN store : store[i].updated_at >= store[i].created_at)
    /\ [][\A i \in DOMAIN store \cap DOMAIN store' :
            store'[i].created_at = store[i].created_at]_vars

\* A record created at instant 0 was updated at a later instant
C8_Witness ==
    \E t \in DOMAIN th :
        /\ th[t].phase = "resp" /\ th[t].op = "update" /\ th[t].status = 200
        /\ th[t].id \in DOMAIN store
        /\ store[th[t].id].created_at = 0
        /\ store[th[t].id].updated_at = clock /\ clock > 0

\* C9: a create, update or delete that a storage failure ends is answered
\* 500 and has changed no stored record.
C9_FailedAttempt ==
    [][\A t \in DOMAIN th :
         (Returned(t, "create") \/ Returned(t, "update") \/ Returned(t, "delete"))
         /\ th'[t].fault # "none" =>
            th'[t].status = 500 /\ store' = store /\ ~th[t].wrote]_vars

\* C10: a committed create that omits the note stores a record whose note is
\* null and whose createdAt equals updatedAt.
C10_CreatedEqualsUpdated ==
    [][\A t \in DOMAIN th :
         Committed(t, "create") /\ "note" \notin DOMAIN th'[t].data.val =>
            /\ store'[th'[t].id].note = None
            /\ store'[th'[t].id].created_at = store'[th'[t].id].updated_at]_vars
====
